---- MODULE Spec2Model ----
(***************************************************************************)
(* The type-error fix scripts: comprehensive_fix.py, final_push.py,        *)
(* final_safe_fix.py, fix_ts_errors.py and ultra_targeted_fix.py.          *)
(*                                                                         *)
(* Every script walks directories, reads each selected file, applies its   *)
(* regular-expression substitutions in a fixed order to the whole text,    *)
(* writes the file back when the text changed, reports it and counts it.   *)
(*                                                                         *)
(* Text is a sequence of tokens.  A token is either a run of word          *)
(* characters (an identifier piece, a digit, the underscore) or a single   *)
(* character that is not a word character; SP is one blank and NL one      *)
(* line feed.  The regular expressions are kept as data (a sequence of     *)
(* elements, the capture groups, the replacement template) and matched by  *)
(* the operators below the way Python's re module matches them: leftmost   *)
(* match, greedy quantifiers with backtracking, non-overlapping            *)
(* substitution from left to right.                                        *)
(***************************************************************************)
EXTENDS Integers, Sequences, FiniteSets, TLC

SP == "SP"
NL == "NL"

\* ---------------------------------------------------------------- tokens

\* \d
Digits == {"0", "1", "2", "3"}

\* problematic_props of safe_fixes
ProblematicProps ==
  <<"cpu", "memory", "sessionId", "userId", "tenantId", "className", "id",
    "payload", "source", "timestamp">>

Containers == <<"metadata", "data", "props">>

ChartFns == {"selectDataPoint", "hoverDataPoint", "clickDataPoint"}

\* \w : every token made of word characters only
Word ==
  Digits \cup ChartFns
    \cup {ProblematicProps[i] : i \in 1..Len(ProblematicProps)}
    \cup {"z", "_", "const", "as", "unknown", "any", "props", "data", "metadata",
          "find", "push", "cell", "request", "msg", "chart", "mockData",
          "mockPieData", "d", "x", "s", "label", "vdom", "children", "container",
          "sliceAngles", "interactions", "events", "bars", "expect", "signal",
          "toBe", "message", "TInput", "compute"}

\* \s
Space == {SP, NL}

Punct ==
  {".", "(", ")", "[", "]", "{", "}", "<", ">", "!", "?", ";", ":", ",", "=",
   "+", "'"}

Token == Word \cup Space \cup Punct

\* [^...]
Not(cs) == Token \ cs

\* -------------------------------------------------------- pattern elements

One(cs)  == [k |-> "one",  c |-> cs,  r |-> 0]
Plus(cs) == [k |-> "plus", c |-> cs,  r |-> 0]
Star(cs) == [k |-> "star", c |-> cs,  r |-> 0]
Opt(cs)  == [k |-> "opt",  c |-> cs,  r |-> 0]
\* \b
Wb       == [k |-> "wb",   c |-> {},  r |-> 0]
\* \N inside a pattern: the text of the group that is element e
Ref(e)   == [k |-> "ref",  c |-> {},  r |-> e]

\* a literal piece of a pattern, token by token
Lit(ts) == [i \in 1..Len(ts) |-> One({ts[i]})]

\* replacement template items
T(ts) == [g |-> 0, t |-> ts]
G(n)  == [g |-> n, t |-> <<>>]

\* ------------------------------------------------------------- matching

NoMatch == [ok |-> FALSE, ends |-> <<>>]

\* position reached after the first k-1 elements of a match started at st
PosAt(st, acc) == IF Len(acc) = 0 THEN st ELSE acc[Len(acc)]

\* length of the longest run of tokens of cs in s from position i
RECURSIVE Run(_, _, _)
Run(cs, s, i) ==
  IF i <= Len(s) /\ s[i] \in cs THEN 1 + Run(cs, s, i + 1) ELSE 0

\* \b at position i: exactly one of the neighbours is a word token
IsBoundary(s, i) ==
  LET before == i > 1 /\ i - 1 <= Len(s) /\ s[i - 1] \in Word
      after  == i >= 1 /\ i <= Len(s) /\ s[i] \in Word
  IN  before # after

ElemText(s, st, ends, e) ==
  SubSeq(s, (IF e = 1 THEN st ELSE ends[e - 1]), ends[e] - 1)

RECURSIVE MatchFrom(_, _, _, _)
RECURSIVE TryRep(_, _, _, _, _, _)

\* Elements Len(acc)+1 .. Len(pat) of pat against s, the earlier ones having
\* ended at the positions acc; ends[e] is the position after element e.
MatchFrom(pat, s, st, acc) ==
  LET k == Len(acc) + 1
      i == PosAt(st, acc)
  IN  IF k > Len(pat) THEN [ok |-> TRUE, ends |-> acc]
      ELSE LET e == pat[k] IN
        CASE e.k = "one" ->
               IF i <= Len(s) /\ s[i] \in e.c
                 THEN MatchFrom(pat, s, st, Append(acc, i + 1))
                 ELSE NoMatch
          [] e.k = "wb" ->
               IF IsBoundary(s, i)
                 THEN MatchFrom(pat, s, st, Append(acc, i))
                 ELSE NoMatch
          [] e.k = "ref" ->
               LET txt == ElemText(s, st, acc, e.r)
                   n   == Len(txt)
               IN  IF i + n - 1 <= Len(s) /\ SubSeq(s, i, i + n - 1) = txt
                     THEN MatchFrom(pat, s, st, Append(acc, i + n))
                     ELSE NoMatch
          [] e.k = "plus" -> TryRep(pat, s, st, acc, Run(e.c, s, i), 1)
          [] e.k = "star" -> TryRep(pat, s, st, acc, Run(e.c, s, i), 0)
          [] e.k = "opt" ->
               TryRep(pat, s, st, acc,
                      (IF Run(e.c, s, i) > 0 THEN 1 ELSE 0), 0)

\* greedy repetition: the longest count first, one fewer on failure
TryRep(pat, s, st, acc, n, min) ==
  IF n < min THEN NoMatch
  ELSE LET r == MatchFrom(pat, s, st, Append(acc, PosAt(st, acc) + n))
       IN  IF r.ok THEN r ELSE TryRep(pat, s, st, acc, n - 1, min)

\* re.search from position pos: the leftmost start that matches
RECURSIVE Search(_, _, _)
Search(pat, s, pos) ==
  IF pos > Len(s) THEN [ok |-> FALSE, st |-> 0, ends |-> <<>>]
  ELSE LET r == MatchFrom(pat, s, pos, <<>>)
       IN  IF r.ok THEN [ok |-> TRUE, st |-> pos, ends |-> r.ends]
           ELSE Search(pat, s, pos + 1)

\* the text a replacement template stands for, for one match
RECURSIVE Expand(_, _, _, _, _)
Expand(repl, groups, s, m, j) ==
  IF j > Len(repl) THEN <<>>
  ELSE LET it == repl[j]
           piece ==
             IF it.g = 0 THEN it.t
             ELSE LET gr == groups[it.g]
                  IN  SubSeq(s, (IF gr[1] = 1 THEN m.st ELSE m.ends[gr[1] - 1]),
                             m.ends[gr[2]] - 1)
       IN  piece \o Expand(repl, groups, s, m, j + 1)

\* re.sub(pattern, replacement, s): every non-overlapping match from the left,
\* the replaced text never scanned again
RECURSIVE SubFrom(_, _, _)
SubFrom(rule, s, pos) ==
  LET m == Search(rule.pat, s, pos)
  IN  IF ~m.ok THEN SubSeq(s, pos, Len(s))
      ELSE SubSeq(s, pos, m.st - 1)
             \o Expand(rule.repl, rule.groups, s, m, 1)
             \o SubFrom(rule, s, m.ends[Len(m.ends)])

ReSub(rule, s) == SubFrom(rule, s, 1)

\* ---------------------------------------------------------------- rules

\* a substitution: re.sub(pat, repl, content)
Rule(name, pat, groups, repl) ==
  [name |-> name, kind |-> "sub", pat |-> pat, groups |-> groups, repl |-> repl]

Blanks(n) == [i \in 1..n |-> SP]

\* comprehensive_fix.py, fix_content

\* const _\w+ = [^;]+;\n\s*\n  ->  \n
UnusedDeclSub ==
  Rule("c1_unused",
       Lit(<<"const", SP, "_">>) \o <<Plus(Word)>> \o Lit(<<SP, "=", SP>>)
         \o <<Plus(Not({";"}))>> \o Lit(<<";", NL>>) \o <<Star(Space)>>
         \o Lit(<<NL>>),
       <<>>,
       <<T(<<NL>>)>>)

\* (\w+)\[(\d+)\]\.(\w+)  ->  \1[\2]?.\3
IndexedAccess ==
  Rule("c2_indexed",
       <<Plus(Word)>> \o Lit(<<"[">>) \o <<Plus(Digits)>> \o Lit(<<"]", ".">>)
         \o <<Plus(Word)>>,
       << <<1, 1>>, <<3, 3>>, <<6, 6>> >>,
       <<G(1), T(<<"[">>), G(2), T(<<"]", "?", ".">>), G(3)>>)

\* \(([^)]*)\)\s*=>\s*(\w+)\+\+  ->  (\1) => {\n        \2++;\n      }
IncrementArrow ==
  Rule("c4_increment",
       Lit(<<"(">>) \o <<Star(Not({")"}))>> \o Lit(<<")">>) \o <<Star(Space)>>
         \o Lit(<<"=", ">">>) \o <<Star(Space)>> \o <<Plus(Word)>>
         \o Lit(<<"+", "+">>),
       << <<2, 2>>, <<8, 8>> >>,
       <<T(<<"(">>), G(1),
         T(<<")", SP, "=", ">", SP, "{", NL>> \o Blanks(8)), G(2),
         T(<<"+", "+", ";", NL>> \o Blanks(6) \o <<"}">>)>>)

\* (as\s+\{\s*props:\s*\{[^}]+\}\s*;\s*\})  ->  as unknown \1
AsUnknownProps ==
  Rule("c5_as_unknown",
       Lit(<<"as">>) \o <<Plus(Space)>> \o Lit(<<"{">>) \o <<Star(Space)>>
         \o Lit(<<"props", ":">>) \o <<Star(Space)>> \o Lit(<<"{">>)
         \o <<Plus(Not({"}"}))>> \o Lit(<<"}">>) \o <<Star(Space)>>
         \o Lit(<<";">>) \o <<Star(Space)>> \o Lit(<<"}">>),
       << <<1, 14>> >>,
       <<T(<<"as", SP, "unknown", SP>>), G(1)>>)

\* \.find\([^)]+\)\)  ->  .find(...)!)
FindNonNull ==
  Rule("c6_find",
       Lit(<<".", "find", "(">>) \o <<Plus(Not({")"}))>> \o Lit(<<")", ")">>),
       <<>>,
       <<T(<<".", "find", "(", ".", ".", ".", ")", "!", ")">>)>>)

\* final_push.py, final_fixes

\* \.<container>\.<prop>\b  ->  .<container>['<prop>']
IndexSignature(container, prop) ==
  Rule("index_" \o container \o "_" \o prop,
       Lit(<<".", container, ".", prop>>) \o <<Wb>>,
       <<>>,
       <<T(<<".", container, "[", "'", prop, "'", "]">>)>>)

\* <prefix>\[(\d+)\]\.  ->  <prefix>[\1]?.
OptionalChain(name, prefix) ==
  Rule(name,
       Lit(prefix \o <<"[">>) \o <<Plus(Digits)>> \o Lit(<<"]", ".">>),
       << <<Len(prefix) + 2, Len(prefix) + 2>> >>,
       <<T(prefix \o <<"[">>), G(1), T(<<"]", "?", ".">>)>>)

\* <([^,>]+), TInput>  ->  <\1, any>
UnusedGeneric ==
  Rule("p3_generic",
       Lit(<<"<">>) \o <<Plus(Not({",", ">"}))>> \o Lit(<<",", SP, "TInput", ">">>),
       << <<2, 2>> >>,
       <<T(<<"<">>), G(1), T(<<",", SP, "any", ">">>)>>)

\* sliceAngles\[(\d+)\]([^?])  ->  sliceAngles[\1]!\2
SliceNonNull ==
  Rule("p4_slice",
       Lit(<<"sliceAngles", "[">>) \o <<Plus(Digits)>> \o Lit(<<"]">>)
         \o <<One(Not({"?"}))>>,
       << <<3, 3>>, <<5, 5>> >>,
       <<T(<<"sliceAngles", "[">>), G(1), T(<<"]", "!">>), G(2)>>)

\* final_safe_fix.py, safe_fixes

\* step 1 of safe_fixes is a loop over the lines, not a substitution
UnusedDeclLines ==
  [name |-> "s1_unused", kind |-> "lines", pat |-> <<>>, groups |-> <<>>,
   repl |-> <<>>]

\* chart\.<fn>\(mockData\.find\(([^)]+)\)\)  ->  chart.<fn>(mockData.find(\1)!)
ChartFindNonNull(fn) ==
  LET head == <<"chart", ".", fn, "(", "mockData", ".", "find", "(">>
  IN  Rule("s3_" \o fn,
           Lit(head) \o <<Plus(Not({")"}))>> \o Lit(<<")", ")">>),
           << <<9, 9>> >>,
           <<T(head), G(1), T(<<")", "!", ")">>)>>)

\* (\w+)\s+as\s+\{\s*props:\s*\{  ->  \1 as unknown as { props: {
AsUnknownAs ==
  Rule("s4_as_unknown",
       <<Plus(Word), Plus(Space)>> \o Lit(<<"as">>) \o <<Plus(Space)>>
         \o Lit(<<"{">>) \o <<Star(Space)>> \o Lit(<<"props", ":">>)
         \o <<Star(Space)>> \o Lit(<<"{">>),
       << <<1, 1>> >>,
       <<G(1), T(<<SP, "as", SP, "unknown", SP, "as", SP, "{", SP, "props", ":",
                   SP, "{">>)>>)

\* <recv>\.payload\.(\w+)  ->  (<written>.payload as any).\1
\* recv is the receiver as the pattern spells it, written as the replacement does
PayloadCast(name, recv, written) ==
  Rule(name,
       recv \o Lit(<<".", "payload", ".">>) \o <<Plus(Word)>>,
       << <<Len(recv) + 4, Len(recv) + 4>> >>,
       <<T(<<"(">> \o written \o <<".", "payload", SP, "as", SP, "any", ")", ".">>),
         G(1)>>)

CellPayload    == PayloadCast("s5_cell", Lit(<<"cell">>), <<"cell">>)
RequestPayload == PayloadCast("s5_request", Lit(<<"request">>), <<"request">>)
\* msg1?\.payload\.(\w+)  ->  (msg1.payload as any).\1
Msg1Payload    == PayloadCast("s5_msg1", Lit(<<"msg">>) \o <<Opt({"1"})>>,
                              <<"msg", "1">>)
Msg2Payload    == PayloadCast("s5_msg2", Lit(<<"msg", "2">>), <<"msg", "2">>)

\* the thirty substitutions of the loop over problematic_props
IndexSignatureLoop ==
  [n \in 1..(Len(ProblematicProps) * Len(Containers)) |->
     IndexSignature(Containers[((n - 1) % Len(Containers)) + 1],
                    ProblematicProps[((n - 1) \div Len(Containers)) + 1])]

\* fix_ts_errors.py

\* \((\w+)\)\s*=>\s*(\w+)\.push\(\1\)  ->  (\1) => {\n        \2.push(\1);\n      }
fix_push_callbacks ==
  Rule("t1_push",
       Lit(<<"(">>) \o <<Plus(Word)>> \o Lit(<<")">>) \o <<Star(Space)>>
         \o Lit(<<"=", ">">>) \o <<Star(Space)>> \o <<Plus(Word)>>
         \o Lit(<<".", "push", "(">>) \o <<Ref(2)>> \o Lit(<<")">>),
       << <<2, 2>>, <<8, 8>> >>,
       <<T(<<"(">>), G(1),
         T(<<")", SP, "=", ">", SP, "{", NL>> \o Blanks(8)), G(2),
         T(<<".", "push", "(">>), G(1),
         T(<<")", ";", NL>> \o Blanks(6) \o <<"}">>)>>)

\* \(\)\s*=>\s*(\w+)\+\+  ->  () => {\n        \1++;\n      }
fix_increment_callbacks ==
  Rule("t2_increment",
       Lit(<<"(", ")">>) \o <<Star(Space)>> \o Lit(<<"=", ">">>)
         \o <<Star(Space)>> \o <<Plus(Word)>> \o Lit(<<"+", "+">>),
       << <<7, 7>> >>,
       <<T(<<"(", ")", SP, "=", ">", SP, "{", NL>> \o Blanks(8)), G(1),
         T(<<"+", "+", ";", NL>> \o Blanks(6) \o <<"}">>)>>)

\* (\w+)\[<idx>\]\.<prop>  ->  \1[<idx>]?.<prop>
OptionalAccess(idx, prop) ==
  Rule("t3_" \o idx \o "_" \o prop,
       <<Plus(Word)>> \o Lit(<<"[", idx, "]", ".", prop>>),
       << <<1, 1>> >>,
       <<G(1), T(<<"[", idx, "]", "?", ".", prop>>)>>)

\* the replacements list of fix_optional_access
fix_optional_access ==
  <<OptionalAccess("0", "payload"), OptionalAccess("0", "message"),
    OptionalAccess("0", "id"), OptionalAccess("1", "payload"),
    OptionalAccess("1", "message")>>

\* ultra_targeted_fix.py, ultra_targeted_fixes

\* vdom\.children\[  ->  vdom.children?.[
VdomChildren ==
  Rule("u1_vdom", Lit(<<"vdom", ".", "children", "[">>), <<>>,
       <<T(<<"vdom", ".", "children", "?", ".", "[">>)>>)

\* chart\.(selectDataPoint|hoverDataPoint|clickDataPoint)\(([^!]+)\)
\*   ->  chart.\1(\2!)
ChartNonNull ==
  Rule("u3_chart",
       Lit(<<"chart", ".">>) \o <<One(ChartFns)>> \o Lit(<<"(">>)
         \o <<Plus(Not({"!"}))>> \o Lit(<<")">>),
       << <<3, 3>>, <<5, 5>> >>,
       <<T(<<"chart", ".">>), G(1), T(<<"(">>), G(2), T(<<"!", ")">>)>>)

\* expect\(s\)\.toBe  ->  expect(s as any).toBe
ExpectS ==
  Rule("u5_expect_s", Lit(<<"expect", "(", "s", ")", ".", "toBe">>), <<>>,
       <<T(<<"expect", "(", "s", SP, "as", SP, "any", ")", ".", "toBe">>)>>)

\* expect\(signal\)\.toBe\(  ->  expect(signal as any).toBe(
ExpectSignal ==
  Rule("u5_expect_signal",
       Lit(<<"expect", "(", "signal", ")", ".", "toBe", "(">>), <<>>,
       <<T(<<"expect", "(", "signal", SP, "as", SP, "any", ")", ".", "toBe",
             "(">>)>>)

\* mockData\.find\(d => d\.x === (\d+)\)\)  ->  mockData.find(d => d.x === \1)!)
MockDataFind ==
  LET head == <<"mockData", ".", "find", "(", "d", SP, "=", ">", SP, "d", ".",
                "x", SP, "=", "=", "=", SP>>
  IN  Rule("u6_mockData",
           Lit(head) \o <<Plus(Digits)>> \o Lit(<<")", ")">>),
           << <<18, 18>> >>,
           <<T(head), G(1), T(<<")", "!", ")">>)>>)

\* mockPieData\.find\(d => d\.label === '([^']+)'\)\)
\*   ->  mockPieData.find(d => d.label === '\1')!)
MockPieDataFind ==
  LET head == <<"mockPieData", ".", "find", "(", "d", SP, "=", ">", SP, "d", ".",
                "label", SP, "=", "=", "=", SP, "'">>
  IN  Rule("u6_mockPieData",
           Lit(head) \o <<Plus(Not({"'"}))>> \o Lit(<<"'", ")", ")">>),
           << <<19, 19>> >>,
           <<T(head), G(1), T(<<"'", ")", "!", ")">>)>>)

\* ------------------------------------------- the line loop of safe_fixes

\* content.split('\n')
RECURSIVE SplitLines(_)
SplitLines(s) ==
  LET n == Run(Token \ {NL}, s, 1)
  IN  IF n = Len(s) THEN <<s>>
      ELSE <<SubSeq(s, 1, n)>> \o SplitLines(SubSeq(s, n + 2, Len(s)))

\* '\n'.join(new_lines)
RECURSIVE JoinLines(_)
JoinLines(ls) ==
  IF Len(ls) = 0 THEN <<>>
  ELSE IF Len(ls) = 1 THEN ls[1]
  ELSE ls[1] \o <<NL>> \o JoinLines(Tail(ls))

\* re.match(r'\s*const _\w+ = ', line)
IsUnusedDecl(line) ==
  MatchFrom(<<Star(Space)>> \o Lit(<<"const", SP, "_">>) \o <<Plus(Word)>>
              \o Lit(<<SP, "=", SP>>),
            line, 1, <<>>).ok

\* line.strip() == ''
IsBlank(line) == \A i \in 1..Len(line) : line[i] \in Space

\* the while loop of safe_fixes from index i (1-based), new_lines so far
RECURSIVE LineLoop(_, _, _)
LineLoop(lines, i, new_lines) ==
  IF i > Len(lines) THEN new_lines
  ELSE IF IsUnusedDecl(lines[i]) /\ i + 1 <= Len(lines) /\ IsBlank(lines[i + 1])
         THEN LineLoop(lines, i + 2, new_lines)
         ELSE LineLoop(lines, i + 1, Append(new_lines, lines[i]))

\* the join with a line break added at the end
RemoveUnusedLines_TrailingBreak(s) ==
  JoinLines(LineLoop(SplitLines(s), 1, <<>>)) \o <<NL>>

RemoveUnusedLines(s) == JoinLines(LineLoop(SplitLines(s), 1, <<>>))

\* ------------------------------------------------------------- the scripts

Scripts == {"comprehensive_fix", "final_push", "final_safe_fix", "fix_ts_errors",
            "ultra_targeted_fix"}

\* the substitutions fix_content makes, in its order
fix_content ==
  <<UnusedDeclSub, IndexedAccess, IncrementArrow, AsUnknownProps, FindNonNull>>

final_fixes ==
  <<IndexSignature("props", "data"),
    OptionalChain("p2_container", <<"container", ".", "children">>),
    UnusedGeneric, SliceNonNull>>

safe_fixes ==
  <<UnusedDeclLines>> \o IndexSignatureLoop
    \o <<ChartFindNonNull("selectDataPoint"), ChartFindNonNull("hoverDataPoint"),
         AsUnknownAs, CellPayload, RequestPayload, Msg1Payload, Msg2Payload,
         OptionalChain("s6_slice", <<"sliceAngles">>)>>

\* what fix_file calls
fix_file == <<fix_push_callbacks, fix_increment_callbacks>>

ultra_targeted_fixes ==
  <<VdomChildren, IndexSignature("props", "className"), ChartNonNull,
    OptionalChain("u4_interactions", <<"interactions">>),
    OptionalChain("u4_events", <<"events">>),
    OptionalChain("u4_bars", <<"bars">>),
    ExpectS, ExpectSignal, MockDataFind, MockPieDataFind>>

\* the rules a script applies to a file, in order
AppliedRules(sc) ==
  CASE sc = "comprehensive_fix"  -> fix_content
    [] sc = "final_push"         -> final_fixes
    [] sc = "final_safe_fix"     -> safe_fixes
    [] sc = "fix_ts_errors"      -> fix_file
    [] sc = "ultra_targeted_fix" -> ultra_targeted_fixes

\* the rules a script defines, in the order of the file
DefinedRules(sc) ==
  IF sc = "fix_ts_errors"
    THEN <<fix_push_callbacks, fix_increment_callbacks>> \o fix_optional_access
    ELSE AppliedRules(sc)

\* one rule on the whole text
ApplyRule(rule, s) ==
  IF rule.kind = "lines" THEN RemoveUnusedLines(s) ELSE ReSub(rule, s)

\* -------------------------------------------------------- the file system

Dirs == {"src", "e2e"}

\* the files of the tree, in the order rglob yields them
FileOrder == <<"src/a.test.ts", "src/b.stories.ts", "e2e/c.spec.ts">>

Files == {FileOrder[i] : i \in 1..Len(FileOrder)}

DirOf(f) == IF f = "e2e/c.spec.ts" THEN "e2e" ELSE "src"

\* the glob pattern that selects f
SuffixOf(f) ==
  CASE f = "src/a.test.ts"    -> "*.test.ts"
    [] f = "src/b.stories.ts" -> "*.stories.ts"
    [] f = "e2e/c.spec.ts"    -> "*.spec.ts"

Pass(dir, sel, guarded) == [dir |-> dir, sel |-> sel, guarded |-> guarded]

\* the rglob loops of main, in order; guarded: inside `if directory.exists()`
Passes(sc) ==
  CASE sc = "comprehensive_fix" ->
         <<Pass("src", "*.test.ts", TRUE), Pass("src", "*.spec.ts", TRUE),
           Pass("src", "*.stories.ts", TRUE),
           Pass("e2e", "*.test.ts", TRUE), Pass("e2e", "*.spec.ts", TRUE),
           Pass("e2e", "*.stories.ts", TRUE)>>
    [] sc = "final_push" -> <<Pass("src", "*.test.ts", FALSE)>>
    [] OTHER ->
         <<Pass("src", "*.test.ts", FALSE), Pass("src", "*.stories.ts", FALSE)>>

\* every file under dir, whatever its suffix
Rglob_AnySuffix(dir, sel, ds, fs) ==
  IF dir \notin ds THEN <<>>
  ELSE SelectSeq(FileOrder, LAMBDA f : f \in fs /\ DirOf(f) = dir)

\* the files of fs under dir that sel selects, in rglob's order; pathlib yields
\* nothing for a directory that does not exist
Rglob(dir, sel, ds, fs) ==
  IF dir \notin ds THEN <<>>
  ELSE SelectSeq(FileOrder,
                 LAMBDA f : f \in fs /\ DirOf(f) = dir /\ SuffixOf(f) = sel)

\* process_file wraps its body in try/except Exception; fix_file does not
HasTry(sc) == sc # "fix_ts_errors"

\* the write made whatever the comparison says
ShouldWrite_Always(new, old) == TRUE

\* `if content != original`
ShouldWrite(new, old) == new # old

\* files_fixed = 0
InitialCount == 0

\* the counter bumped by two
Bump_Twice(n) == n + 2

\* files_fixed += 1
Bump(n) == n + 1

\* -------------------------------------------------------------- the inputs

MaxSnips == 3

Text_Plain   == <<"z">>
Text_Decl    == <<"const", SP, "_", "z", SP, "=", SP, "compute", "(", ")", ";", NL>>
Text_Find    ==
  <<"chart", ".", "selectDataPoint", "(", "mockData", ".", "find", "(", "d", SP,
    "=", ">", SP, "d", ".", "x", SP, "=", "=", "=", SP, "3", ")", ")">>
Text_Indexed == <<"z", "[", "0", "]", ".", "id">>
Text_Payload == <<"msg", ".", "payload", ".", "id">>
Text_Push    == <<"(", "x", ")", SP, "=", ">", SP, "z", ".", "push", "(", "x", ")">>
Text_Incr    == <<"(", ")", SP, "=", ">", SP, "z", "+", "+">>
Text_Message == <<"z", "[", "0", "]", ".", "payload">>

\* pieces of text the files of a run are made of; the first changes under the
\* script, the second does not
Snippets(sc) ==
  CASE sc = "comprehensive_fix" ->
         <<Text_Indexed, Text_Plain, Text_Decl, <<NL>>, Text_Find>>
    [] sc = "final_push" ->
         <<<<".", "props", ".", "data">>, Text_Plain,
           <<"sliceAngles", "[", "0", "]", ".", "z">>,
           <<"container", ".", "children", "[", "1", "]", ".", "z">>,
           <<"<", "z", ",", SP, "TInput", ">">>>>
    [] sc = "final_safe_fix" ->
         <<Text_Payload, Text_Plain, Text_Decl, <<NL>>, Text_Find,
           <<".", "props", ".", "id">>>>
    [] sc = "fix_ts_errors" ->
         <<Text_Push, Text_Plain, Text_Incr, Text_Message, <<NL>>>>
    [] sc = "ultra_targeted_fix" ->
         <<Text_Find, Text_Plain, <<"vdom", ".", "children", "[", "0", "]">>,
           <<"bars", "[", "0", "]", ".", "x">>,
           <<"expect", "(", "s", ")", ".", "toBe", "(", "z", ")">>>>

\* every text made of at most n snippets of ss
RECURSIVE Concats(_, _)
Concats(ss, n) ==
  IF n = 0 THEN {<<>>}
  ELSE {<<>>} \cup {ss[i] \o y : i \in 1..Len(ss), y \in Concats(ss, n - 1)}

\* ------------------------------------------------------------------ state

VARIABLES
  script,       \* the script that runs
  dirs,         \* the directories that exist
  files,        \* the files that exist
  disk,         \* file -> its text on disk
  pc,           \* where main is
  pass,         \* index of the next rglob loop of main
  todo,         \* files the current rglob loop has yet to yield
  cur,          \* filepath of the call of process_file in progress
  content,      \* its local content
  original,     \* its local original
  ruleIdx,      \* index of the next substitution
  applied,      \* names of the substitutions made on content so far
  ret,          \* its return value
  files_fixed,  \* the counter of main
  out,          \* what was printed
  opened,       \* files opened for writing
  results       \* the calls that returned: file and return value

vars ==
  <<script, dirs, files, disk, pc, pass, todo, cur, content, original, ruleIdx,
    applied, ret, files_fixed, out, opened, results>>

Line(kind, f, n) == [kind |-> kind, file |-> f, n |-> n]

Init ==
  /\ script \in Scripts
  /\ dirs \in SUBSET Dirs
  /\ files \in SUBSET {f \in Files : DirOf(f) \in dirs}
  /\ LET ss    == Snippets(script)
         small == {ss[1], ss[2]}
         rich  == Concats(ss, MaxSnips)
         choice(f) ==
           IF f \notin files THEN {<<>>}
           ELSE IF files = {f} /\ f = FileOrder[1] THEN rich ELSE small
     IN  \E ca \in choice(FileOrder[1]), cb \in choice(FileOrder[2]),
            cc \in choice(FileOrder[3]) :
           disk = [f \in Files |->
                     IF f = FileOrder[1] THEN ca
                     ELSE IF f = FileOrder[2] THEN cb ELSE cc]
  /\ pc = "loop"
  /\ pass = 1
  /\ todo = <<>>
  /\ cur = ""
  /\ content = <<>>
  /\ original = <<>>
  /\ ruleIdx = 1
  /\ applied = <<>>
  /\ ret = FALSE
  /\ files_fixed = InitialCount
  /\ out = <<>>
  /\ opened = {}
  /\ results = <<>>

\* ---------------------------------------------------------------- actions

\* main: enter the next `for filepath in directory.rglob(...)` loop
StartPass ==
  /\ pc = "loop" /\ todo = <<>> /\ pass <= Len(Passes(script))
  /\ LET p == Passes(script)[pass]
     IN  todo' = IF p.guarded /\ p.dir \notin dirs THEN <<>>
                 ELSE Rglob(p.dir, p.sel, dirs, files)
  /\ pass' = pass + 1
  /\ UNCHANGED <<script, dirs, files, disk, pc, cur, content, original, ruleIdx,
                 applied, ret, files_fixed, out, opened, results>>

\* main: the loop yields the next filepath and calls process_file
NextFile ==
  /\ pc = "loop" /\ todo # <<>>
  /\ cur' = Head(todo)
  /\ todo' = Tail(todo)
  /\ pc' = "read"
  /\ content' = <<>> /\ original' = <<>> /\ ruleIdx' = 1 /\ applied' = <<>>
  /\ ret' = FALSE
  /\ UNCHANGED <<script, dirs, files, disk, pass, files_fixed, out, opened,
                 results>>

\* an exception inside process_file: caught and printed where there is a
\* try/except, and the call returns False; otherwise it ends the run
Raise ==
  IF HasTry(script)
    THEN /\ out' = Append(out, Line("Error", cur, 0))
         /\ ret' = FALSE
         /\ pc' = "return"
    ELSE /\ pc' = "aborted"
         /\ UNCHANGED <<out, ret>>

\* process_file: open(filepath, 'r') ... f.read(); original = content
ReadFile ==
  /\ pc = "read"
  /\ content' = disk[cur]
  /\ original' = disk[cur]
  /\ pc' = "rules"
  /\ UNCHANGED <<script, dirs, files, disk, pass, todo, cur, ruleIdx, applied,
                 ret, files_fixed, out, opened, results>>

\* process_file: opening or decoding the file fails
ReadFails ==
  /\ pc = "read"
  /\ Raise
  /\ UNCHANGED <<script, dirs, files, disk, pass, todo, cur, content, original,
                 ruleIdx, applied, files_fixed, opened, results>>

\* the next substitution of the script's fix function
ApplyNextRule ==
  /\ pc = "rules" /\ ruleIdx <= Len(AppliedRules(script))
  /\ content' = ApplyRule(AppliedRules(script)[ruleIdx], content)
  /\ applied' = Append(applied, AppliedRules(script)[ruleIdx].name)
  /\ ruleIdx' = ruleIdx + 1
  /\ UNCHANGED <<script, dirs, files, disk, pc, pass, todo, cur, original, ret,
                 files_fixed, out, opened, results>>

\* process_file: `if content != original:`; falls through to `return False`
Compare ==
  /\ pc = "rules" /\ ruleIdx > Len(AppliedRules(script))
  /\ IF ShouldWrite(content, original)
       THEN pc' = "write" /\ UNCHANGED ret
       ELSE pc' = "return" /\ ret' = FALSE
  /\ UNCHANGED <<script, dirs, files, disk, pass, todo, cur, content, original,
                 ruleIdx, applied, files_fixed, out, opened, results>>

\* process_file: open(filepath, 'w') ... f.write(content); return True
WriteFile ==
  /\ pc = "write"
  /\ opened' = opened \cup {cur}
  /\ disk' = [disk EXCEPT ![cur] = content]
  /\ ret' = TRUE
  /\ pc' = "return"
  /\ UNCHANGED <<script, dirs, files, pass, todo, cur, content, original,
                 ruleIdx, applied, files_fixed, out, results>>

\* process_file: the write fails; the open may have failed (the file is as it
\* was) or have truncated the file before the failure
WriteFails ==
  /\ pc = "write"
  /\ \E truncated \in BOOLEAN :
       IF truncated
         THEN disk' = [disk EXCEPT ![cur] = <<>>] /\ opened' = opened \cup {cur}
         ELSE UNCHANGED <<disk, opened>>
  /\ Raise
  /\ UNCHANGED <<script, dirs, files, pass, todo, cur, content, original,
                 ruleIdx, applied, files_fixed, results>>

\* main: `if process_file(filepath): print(f'Fixed: ...'); files_fixed += 1`
Report ==
  /\ pc = "return"
  /\ results' = Append(results, [file |-> cur, changed |-> ret])
  /\ IF ret
       THEN /\ out' = Append(out, Line("Fixed", cur, 0))
            /\ files_fixed' = Bump(files_fixed)
       ELSE UNCHANGED <<out, files_fixed>>
  /\ pc' = "loop"
  /\ UNCHANGED <<script, dirs, files, disk, pass, todo, cur, content, original,
                 ruleIdx, applied, ret, opened>>

\* main: print(f'\nTotal files fixed: {files_fixed}')
PrintTotal ==
  /\ pc = "loop" /\ todo = <<>> /\ pass > Len(Passes(script))
  /\ out' = Append(out, Line("Total", "", files_fixed))
  /\ pc' = "done"
  /\ UNCHANGED <<script, dirs, files, disk, pass, todo, cur, content, original,
                 ruleIdx, applied, ret, files_fixed, opened, results>>

Next ==
  \/ StartPass
  \/ NextFile
  \/ ReadFile
  \/ ReadFails
  \/ ApplyNextRule
  \/ Compare
  \/ WriteFile
  \/ WriteFails
  \/ Report
  \/ PrintTotal

Spec == Init /\ [][Next]_vars

\* ------------------------------------------------- vocabulary of the claims

Names(rs) == [i \in 1..Len(rs) |-> rs[i].name]

\* the files of out's lines of one kind, in order
RECURSIVE FilesOfKind(_, _)
FilesOfKind(o, kind) ==
  IF o = <<>> THEN <<>>
  ELSE (IF Head(o).kind = kind THEN <<Head(o).file>> ELSE <<>>)
         \o FilesOfKind(Tail(o), kind)

\* the files of the calls that returned True, in order
RECURSIVE ChangedFiles(_)
ChangedFiles(rs) ==
  IF rs = <<>> THEN <<>>
  ELSE (IF Head(rs).changed THEN <<Head(rs).file>> ELSE <<>>)
         \o ChangedFiles(Tail(rs))

ResultFiles == [i \in 1..Len(results) |-> results[i].file]

InSeq(x, sq) == \E i \in 1..Len(sq) : sq[i] = x

\* the files of the tree a loop of the script selects
Eligible ==
  {f \in files : \E i \in 1..Len(Passes(script)) :
     /\ Passes(script)[i].dir = DirOf(f)
     /\ Passes(script)[i].sel = SuffixOf(f)}

\* the same files in the order the loops of main come to them
RECURSIVE DiscoveryFrom(_)
DiscoveryFrom(i) ==
  IF i > Len(Passes(script)) THEN <<>>
  ELSE SelectSeq(FileOrder,
                 LAMBDA f : /\ f \in files
                            /\ Passes(script)[i].dir = DirOf(f)
                            /\ Passes(script)[i].sel = SuffixOf(f))
         \o DiscoveryFrom(i + 1)

Discovery == DiscoveryFrom(1)

IsPrefix(a, b) == Len(a) <= Len(b) /\ a = SubSeq(b, 1, Len(a))

\* the call of process_file on cur has read the file and made all its
\* substitutions
Transformed == cur # "" /\ ruleIdx > Len(AppliedRules(script))

\* a step that makes the substitution named by one of ns
RuleStep(ns) ==
  /\ pc = "rules" /\ ruleIdx' = ruleIdx + 1
  /\ AppliedRules(script)[ruleIdx].name \in ns

\* the pattern of the rule is found in s
RuleMatches(rule, s) ==
  IF rule.kind = "lines"
    THEN \E i \in 1..Len(SplitLines(s)) : IsUnusedDecl(SplitLines(s)[i])
    ELSE Search(rule.pat, s, 1).ok

NoPatternMatches(sc, s) ==
  \A k \in 1..Len(DefinedRules(sc)) : ~RuleMatches(DefinedRules(sc)[k], s)

\* the texts a substitution puts in place of its matches in s
RECURSIVE ReplacementTexts(_, _, _)
ReplacementTexts(rule, s, pos) ==
  LET m == Search(rule.pat, s, pos)
  IN  IF ~m.ok THEN {}
      ELSE {Expand(rule.repl, rule.groups, s, m, 1)}
             \cup ReplacementTexts(rule, s, m.ends[Len(m.ends)])

\* no text the rule puts into s matches the rule's own pattern; the line
\* removal puts nothing
ReplacementCannotMatch(rule, s) ==
  \/ rule.kind = "lines"
  \/ \A t \in ReplacementTexts(rule, s, 1) : ~Search(rule.pat, t, 1).ok

Without(s, ts) == SelectSeq(s, LAMBDA t : t \notin ts)

\* ------------------------------------------------------------------ claims

\* C1: a failure to read or write one file is caught at that file: it never
\* ends the run, a file whose processing failed is not reported as fixed, and
\* a run that ends has processed every file it discovered and printed the total.
C1_FailureContained ==
  /\ pc # "aborted"
  /\ \A f \in Files :
       InSeq(f, FilesOfKind(out, "Error")) => ~InSeq(f, FilesOfKind(out, "Fixed"))
  /\ pc = "done" =>
       /\ ResultFiles = Discovery
       /\ out[Len(out)] = Line("Total", "", Len(FilesOfKind(out, "Fixed")))

\* C2: a file whose text none of the script's patterns match is left as it
\* was: it is not opened for writing, the call returns False and the file is
\* not reported as fixed.
C2_UnmatchedUntouched ==
  (Transformed /\ NoPatternMatches(script, original)) =>
     /\ content = original
     /\ disk[cur] = original
     /\ cur \notin opened
     /\ pc # "write"
     /\ ~ret
     /\ ~InSeq(cur, FilesOfKind(out, "Fixed"))
     /\ ~InSeq(cur, ChangedFiles(results))

C2_Witness ==
  /\ script = "final_safe_fix" /\ pc = "loop" /\ Transformed
  /\ NoPatternMatches(script, original)
  /\ Len(SplitLines(original)) > 1
  /\ InSeq(cur, ResultFiles)

\* C3: a rule that puts no text matching its own pattern is idempotent:
\* applied again to its own output it changes nothing.  The line removal of
\* safe_fixes, which puts no text at all, is such a rule.
C3_RuleIdempotent ==
  [][(pc = "rules" /\ ruleIdx' = ruleIdx + 1
        /\ ReplacementCannotMatch(AppliedRules(script)[ruleIdx], content))
       => ApplyRule(AppliedRules(script)[ruleIdx], content') = content']_vars

\* C4: the file is opened for writing if and only if the transformed text
\* differs from the text read; the call returns True exactly when that write
\* was made and did not fail, and then the file holds the transformed text.
C4_WriteIffChanged ==
  /\ pc = "write" => content # original
  /\ (cur # "" /\ cur \in opened) => content # original
  /\ (Transformed /\ pc \in {"return", "loop", "done"}) =>
       /\ ret <=> (content # original /\ ~InSeq(cur, FilesOfKind(out, "Error")))
       /\ ret => (disk[cur] = content /\ cur \in opened)
       /\ content = original => (disk[cur] = original /\ cur \notin opened)

C4_Witness ==
  /\ script = "final_push" /\ pc = "return" /\ ret
  /\ disk[cur] = content /\ content # original

\* C5: the total printed equals the number of 'Fixed:' lines and the number of
\* calls that returned True; the 'Fixed:' lines come in discovery order, each
\* for a file just written; the total is printed last, after every loop.
C5_TotalMatchesReports ==
  /\ files_fixed = Len(FilesOfKind(out, "Fixed"))
  /\ FilesOfKind(out, "Fixed") = ChangedFiles(results)
  /\ IsPrefix(ResultFiles, Discovery)
  /\ (pc = "return" /\ ret) => (cur \in opened /\ disk[cur] = content)
  /\ \A i \in 1..Len(out) :
       out[i].kind = "Total" => (pc = "done" /\ i = Len(out))
  /\ pc = "done" =>
       /\ out[Len(out)] = Line("Total", "", Len(ChangedFiles(results)))
       /\ pass > Len(Passes(script)) /\ todo = <<>>
       /\ ResultFiles = Discovery

C5_Witness ==
  /\ script = "comprehensive_fix" /\ pc = "done"
  /\ files_fixed = 2 /\ Len(results) = 3

\* line i declares an unused binding and line i+1 is blank
DeclWithBlank(lines, i) ==
  /\ i >= 1 /\ i + 1 <= Len(lines)
  /\ IsUnusedDecl(lines[i]) /\ IsBlank(lines[i + 1])

\* the lines left when every such declaration and its blank line are removed
RECURSIVE KeptFrom(_, _)
KeptFrom(lines, i) ==
  IF i > Len(lines) THEN <<>>
  ELSE (IF DeclWithBlank(lines, i) \/ DeclWithBlank(lines, i - 1)
          THEN <<>> ELSE <<lines[i]>>)
         \o KeptFrom(lines, i + 1)

\* the text ends with a line break right after a declaration: split('\n')
\* then calls the empty remainder a line, and no blank line follows in the file
EndsAfterDecl(lines) ==
  /\ Len(lines) >= 2
  /\ lines[Len(lines)] = <<>>
  /\ IsUnusedDecl(lines[Len(lines) - 1])

UnusedRules == {"c1_unused", "s1_unused"}

\* C6: the removal of unused bindings removes every line that declares an
\* underscore-prefixed const and is followed by a blank line, together with
\* that blank line, and keeps every other line in its order.  (A text that
\* ends with the line break of a declaration is left out: no blank line
\* follows the declaration in the file.)
C6_DeclAndBlankRemoved ==
  [][(RuleStep(UnusedRules) /\ ~EndsAfterDecl(SplitLines(content)))
       => content' = JoinLines(KeptFrom(SplitLines(content), 1))]_vars

Text_FindFixed ==
  SubSeq(Text_Find, 1, Len(Text_Find) - 1) \o <<"!", ")">>

NullArgRules ==
  {"c6_find", "s3_selectDataPoint", "s3_hoverDataPoint", "u3_chart",
   "u6_mockData", "u6_mockPieData"}

\* C7: a null-argument rule inserts `!` and changes nothing else, so the
\* callback inside find(...) stays as it was, and a file that reads
\* chart.selectDataPoint(mockData.find(d => d.x === 3)) comes out of the
\* substitutions as chart.selectDataPoint(mockData.find(d => d.x === 3)!).
C7_OnlyBangInserted ==
  [][/\ RuleStep(NullArgRules) =>
          Without(content', {"!"}) = Without(content, {"!"})
     /\ (/\ pc = "rules" /\ pc' # "rules"
         /\ script \in {"comprehensive_fix", "final_safe_fix", "ultra_targeted_fix"}
         /\ original = Text_Find)
          => content = Text_FindFixed]_vars

\* C8: a run that finds no file to process, its root directory missing or
\* holding no file a selector matches, ends without an error, writes nothing,
\* reports nothing as fixed and prints a total of zero.
C8_EmptyRunReportsZero ==
  Eligible = {} =>
    /\ pc # "aborted"
    /\ opened = {}
    /\ results = <<>>
    /\ pc # "done" => (out = <<>> /\ ENABLED Next)
    /\ pc = "done" => out = <<Line("Total", "", 0)>>

C8_Witness ==
  /\ script = "final_push" /\ "src" \notin dirs /\ files = {"e2e/c.spec.ts"}
  /\ pc = "done" /\ out = <<Line("Total", "", 0)>>

\* C9: on every selected file each rule the script defines is applied exactly
\* once, in the order of the script; the comparison with the original comes
\* after the last of them.
C9_EveryDefinedRuleApplied ==
  /\ pc = "rules" =>
       /\ ruleIdx - 1 <= Len(DefinedRules(script))
       /\ applied = SubSeq(Names(DefinedRules(script)), 1, ruleIdx - 1)
  /\ (pc = "write" \/ (pc = "return" /\ ruleIdx > 1)) =>
       applied = Names(DefinedRules(script))

PayloadRules == {"s5_cell", "s5_request", "s5_msg1", "s5_msg2"}

CastTokens == {"(", ")", SP, "as", "any"}

\* C10: a payload rule only adds the cast `(... as any)`: receiver and field
\* stay the identifiers they were, so apart from the tokens of the cast the
\* text is the same after the rule as before.
C10_CastKeepsIdentifiers ==
  [][RuleStep(PayloadRules)
       => Without(content', CastTokens) = Without(content, CastTokens)]_vars

====
